---- MODULE Spec2Model ----
(***************************************************************************)
(* Model of doit.py, a command-line wrapper around vagrant, ansible-lint   *)
(* and ansible-vault.  One run of the program is modelled: the command     *)
(* line is parsed by argparse, the function named by the subcommand is     *)
(* called through eval, and every function body is a sequence of calls to  *)
(* other functions of the module and of run_cmd_and_exit, which spawns an  *)
(* external process with subprocess.run(check=True) and waits for it.      *)
(*                                                                         *)
(* Environment assumptions: the external tools are installed and the       *)
(* working directory exists, so that subprocess.run always succeeds in     *)
(* spawning the child; the run is not interrupted by a signal.             *)
(***************************************************************************)
EXTENDS FiniteSets, Integers, Sequences, TLC

(***************************************************************************)
(* Bounds of the model.                                                    *)
(***************************************************************************)
\* exit statuses an external process may return are 0..MaxExit
MaxExit == 2

(***************************************************************************)
(* Values that stand for Python's None and for an option that is not on    *)
(* the command line.                                                       *)
(***************************************************************************)
None == "<None>"
Absent == "<absent>"

\* current working directories the program is started in (canonical paths)
Cwds == {"/", "/home/u/project"}
\* option values the caller may give
Values == {"vm", "/srv/site.yml"}
\* subcommand words the caller may give that create_subparsers does not register
Unregistered == {"bogus", "validate_ansible"}

ExitCodes == 0..MaxExit

(***************************************************************************)
(* Interpreter and library behaviour the program relies on.                *)
(***************************************************************************)
\* ArgumentParser.error prints the usage and exits with status 2
ArgparseErrorStatus == 2
\* an exception that reaches the top level ends the interpreter with status 1
UncaughtExceptionStatus == 1

(***************************************************************************)
(* Base utility commands (doit.py lines 16-23).                            *)
(***************************************************************************)
ANSIBLE_LINT_CMD == <<"ansible-lint">>
ANSIBLE_VAULT_CMD == <<"ansible-vault">>
VAGRANT_DESTROY_CMD == <<"vagrant", "destroy">>
VAGRANT_REPROVISION_CMD == <<"vagrant", "provision">>
VAGRANT_SSH_CMD == <<"vagrant", "ssh">>
VAGRANT_STATUS_CMD == <<"vagrant", "status">>
VAGRANT_UP_CMD == <<"vagrant", "up">>
VAGRANT_VALIDATE_CMD == <<"vagrant", "validate">>

(***************************************************************************)
(* Statements of a function body.                                          *)
(***************************************************************************)
NoArgs == [vagrantfile_path |-> None, playbook_path |-> None, vault_file_path |-> None]

\* a call f(...) of a function of the module
Call(f, a) == [op |-> "call", fn |-> f, args |-> a, cmd |-> <<>>, workdir |-> None]

\* run_cmd_and_exit(cmd, workdir=None): run(cmd, check=True, cwd=workdir)
run_cmd_and_exit(cmd, workdir) ==
    [op |-> "run", fn |-> "run", args |-> NoArgs, cmd |-> cmd, workdir |-> workdir]

(***************************************************************************)
(* The functions of the module, each as the sequence of its statements.    *)
(* a holds the keyword arguments the function was called with.             *)
(***************************************************************************)
validate_vagrant(a) ==
    << run_cmd_and_exit(VAGRANT_VALIDATE_CMD, a.vagrantfile_path) >>

\* variant: the linter is started in the playbook path
validate_ansible_cwd(a) ==
    << run_cmd_and_exit(ANSIBLE_LINT_CMD \o <<a.playbook_path>>, a.playbook_path) >>

validate_ansible(a) ==
    << run_cmd_and_exit(ANSIBLE_LINT_CMD \o <<a.playbook_path>>, None) >>

\* variant: the playbook is linted first
validate_swapped(a) ==
    << Call("validate_ansible", [NoArgs EXCEPT !.playbook_path = a.playbook_path]),
       Call("validate_vagrant", [NoArgs EXCEPT !.vagrantfile_path = a.vagrantfile_path]) >>

validate(a) ==
    << Call("validate_vagrant", [NoArgs EXCEPT !.vagrantfile_path = a.vagrantfile_path]),
       Call("validate_ansible", [NoArgs EXCEPT !.playbook_path = a.playbook_path]) >>

\* variant: the machine is brought up before the validations
setup_up_first(a) ==
    << run_cmd_and_exit(VAGRANT_UP_CMD, a.vagrantfile_path),
       Call("validate", [NoArgs EXCEPT !.vagrantfile_path = a.vagrantfile_path,
                                       !.playbook_path = a.playbook_path]) >>

setup(a) ==
    << Call("validate", [NoArgs EXCEPT !.vagrantfile_path = a.vagrantfile_path,
                                       !.playbook_path = a.playbook_path]),
       run_cmd_and_exit(VAGRANT_UP_CMD, a.vagrantfile_path) >>

status(a) ==
    << run_cmd_and_exit(VAGRANT_STATUS_CMD, a.vagrantfile_path) >>

enter(a) ==
    << run_cmd_and_exit(VAGRANT_SSH_CMD, a.vagrantfile_path) >>

\* variant: only the Vagrantfile is validated
reprovision_vagrant_only(a) ==
    << Call("validate_vagrant", [NoArgs EXCEPT !.vagrantfile_path = a.vagrantfile_path]),
       run_cmd_and_exit(VAGRANT_REPROVISION_CMD, a.vagrantfile_path) >>

reprovision(a) ==
    << Call("validate", [NoArgs EXCEPT !.vagrantfile_path = a.vagrantfile_path,
                                       !.playbook_path = a.playbook_path]),
       run_cmd_and_exit(VAGRANT_REPROVISION_CMD, a.vagrantfile_path) >>

destroy(a) ==
    << run_cmd_and_exit(VAGRANT_DESTROY_CMD, a.vagrantfile_path) >>

encrypt_vault(a) ==
    << run_cmd_and_exit(ANSIBLE_VAULT_CMD \o <<"encrypt", a.vault_file_path>>, None) >>

edit_vault(a) ==
    << run_cmd_and_exit(ANSIBLE_VAULT_CMD \o <<"edit", a.vault_file_path>>, None) >>

view_vault(a) ==
    << run_cmd_and_exit(ANSIBLE_VAULT_CMD \o <<"view", a.vault_file_path>>, None) >>

rekey_vault(a) ==
    << run_cmd_and_exit(ANSIBLE_VAULT_CMD \o <<"rekey", a.vault_file_path>>, None) >>

\* the names bound to a subcommand function in the module's namespace
Defined ==
    { "validate", "validate_vagrant", "setup", "status", "enter", "reprovision",
      "destroy", "validate_ansible", "encrypt_vault", "edit_vault", "view_vault",
      "rekey_vault" }

\* the body of the function bound to name f
Body(f, a) ==
    CASE f = "validate"         -> validate(a)
      [] f = "validate_vagrant" -> validate_vagrant(a)
      [] f = "setup"            -> setup(a)
      [] f = "status"           -> status(a)
      [] f = "enter"            -> enter(a)
      [] f = "reprovision"      -> reprovision(a)
      [] f = "destroy"          -> destroy(a)
      [] f = "validate_ansible" -> validate_ansible(a)
      [] f = "encrypt_vault"    -> encrypt_vault(a)
      [] f = "edit_vault"       -> edit_vault(a)
      [] f = "view_vault"       -> view_vault(a)
      [] f = "rekey_vault"      -> rekey_vault(a)

(***************************************************************************)
(* Argument parser (doit.py lines 172-311).                                *)
(***************************************************************************)
\* os.path.join of a canonical directory and a relative component
join(a, b) == IF a = "/" THEN a \o b ELSE a \o "/" \o b

\* realpath('.') in a process whose canonical working directory is d
realpath_dot(d) == d

add_argument_vagrantfile(d) ==
    [dest |-> "vagrantfile_path", required |-> FALSE, default |-> realpath_dot(d)]

add_argument_playbook(d) ==
    [dest |-> "playbook_path", required |-> FALSE,
     default |-> join(join(realpath_dot(d), "provisioning"), "playbook.yml")]

\* variant: the vault file is optional and has a default
add_argument_vault_file_defaulted ==
    [dest |-> "vault_file_path", required |-> FALSE, default |-> "vault.yml"]

add_argument_vault_file ==
    [dest |-> "vault_file_path", required |-> TRUE, default |-> None]

add_subparser_to_vagrant_command(d, include_playbook) ==
    {add_argument_vagrantfile(d)}
        \cup (IF include_playbook THEN {add_argument_playbook(d)} ELSE {})

add_subparser_to_vault_command == {add_argument_vault_file}

\* the registered subcommands, each with the arguments of its subparser
create_subparsers(d) ==
    [n \in { "setup", "status", "enter", "reprovision", "destroy", "validate",
             "validate_vagrant", "validate_playbook", "encrypt_vault",
             "edit_vault", "view_vault", "rekey_vault" } |->
        CASE n = "setup"             -> add_subparser_to_vagrant_command(d, TRUE)
          [] n = "status"            -> add_subparser_to_vagrant_command(d, FALSE)
          [] n = "enter"             -> add_subparser_to_vagrant_command(d, FALSE)
          [] n = "reprovision"       -> add_subparser_to_vagrant_command(d, TRUE)
          [] n = "destroy"           -> add_subparser_to_vagrant_command(d, FALSE)
          [] n = "validate"          -> add_subparser_to_vagrant_command(d, TRUE)
          [] n = "validate_vagrant"  -> add_subparser_to_vagrant_command(d, FALSE)
          [] n = "validate_playbook" -> {add_argument_playbook(d)}
          [] n = "encrypt_vault"     -> add_subparser_to_vault_command
          [] n = "edit_vault"        -> add_subparser_to_vault_command
          [] n = "view_vault"        -> add_subparser_to_vault_command
          [] n = "rekey_vault"       -> add_subparser_to_vault_command]

Dests == {"vagrantfile_path", "playbook_path", "vault_file_path"}

\* the command lines: a subcommand word (or none) and the options given
Argvs ==
    [subcommand : DOMAIN create_subparsers("/") \cup Unregistered \cup {None},
     vagrantfile_path : Values \cup {Absent},
     playbook_path : Values \cup {Absent},
     vault_file_path : Values \cup {Absent}]

Given(av) == {o \in Dests : av[o] /= Absent}

\* the value argparse stores for dest o of a subparser with arguments specs
Stored(av, specs, o) ==
    IF \E s \in specs : s.dest = o
    THEN IF av[o] /= Absent THEN av[o] ELSE (CHOOSE s \in specs : s.dest = o).default
    ELSE None

\* parser.parse_args(): ok with the namespace, or a usage error
parse_args(av, d) ==
    LET subs == create_subparsers(d)
        Error == [ok |-> FALSE, ns |-> [subcommand |-> None] @@ NoArgs]
    IN  IF av.subcommand = None
        THEN IF Given(av) /= {}
             THEN Error   \* unrecognized arguments
             ELSE [ok |-> TRUE, ns |-> [subcommand |-> None] @@ NoArgs]
        ELSE IF av.subcommand \notin DOMAIN subs
        THEN Error        \* invalid choice
        ELSE LET specs == subs[av.subcommand]
             IN  IF \E o \in Given(av) : \A s \in specs : s.dest /= o
                 THEN Error   \* unrecognized arguments
                 ELSE IF \E s \in specs : s.required /\ av[s.dest] = Absent
                 THEN Error   \* the following arguments are required
                 ELSE [ok |-> TRUE,
                       ns |-> [subcommand |-> av.subcommand,
                               vagrantfile_path |-> Stored(av, specs, "vagrantfile_path"),
                               playbook_path |-> Stored(av, specs, "playbook_path"),
                               vault_file_path |-> Stored(av, specs, "vault_file_path")]]

(***************************************************************************)
(* main (doit.py lines 317-349).                                           *)
(***************************************************************************)
\* variant: no subcommand prints the usage and ends normally
main_subcommand_check_help(ns) ==
    IF ns.subcommand = None THEN [exit |-> TRUE, status |-> 0, message |-> "usage"]
    ELSE [exit |-> FALSE, status |-> 0, message |-> ""]

\* lines 338-339: parser.error when args.subcommand is None
main_subcommand_check(ns) ==
    IF ns.subcommand = None
    THEN [exit |-> TRUE, status |-> ArgparseErrorStatus, message |-> "usage"]
    ELSE [exit |-> FALSE, status |-> 0, message |-> ""]

\* try: eval(...) except NameError: parser.error(...); anything else is uncaught
main_except(exc) ==
    IF exc = "NameError"
    THEN [status |-> ArgparseErrorStatus, message |-> "not implemented"]
    ELSE [status |-> UncaughtExceptionStatus, message |-> "traceback"]

(***************************************************************************)
(* subprocess.run(cmd, check=True, cwd=workdir).                           *)
(***************************************************************************)
\* variant: the child is started and not waited for
run_wait_none(p) == TRUE

\* run returns only when the child has terminated
run_wait(p) == ~p.alive

\* variant: check left out, the return code is ignored
run_check_off(p) == FALSE

\* check=True: a non-zero return code raises CalledProcessError
run_check(p) == p.returncode /= 0

(***************************************************************************)
(* State.                                                                  *)
(***************************************************************************)
VARIABLES
    argv,       \* the command line of the run
    cwd,        \* the working directory the program was started in
    pc,         \* position in main: "parse_args", "eval", "call", "exited"
    args,       \* the namespace returned by parse_args
    stack,      \* call stack below main: frames [fn, args, pc, child]
    procs,      \* the external processes spawned so far, in spawn order:
                \* [cmd, cwd, alive, returncode], returncode read once ~alive
    exitStatus, \* the exit status of the program once pc = "exited"
    message     \* what the program reported on stderr when it exited

vars == <<argv, cwd, pc, args, stack, procs, exitStatus, message>>

Top == stack[Len(stack)]
TopBody == Body(Top.fn, Top.args)
SetTop(f) == [stack EXCEPT ![Len(stack)] = f]

Init ==
    /\ argv \in Argvs
    /\ cwd \in Cwds
    /\ pc = "parse_args"
    /\ args = [subcommand |-> None] @@ NoArgs
    /\ stack = <<>>
    /\ procs = <<>>
    /\ exitStatus = 0
    /\ message = ""

Exit(st, msg) ==
    /\ pc' = "exited"
    /\ stack' = <<>>
    /\ exitStatus' = st
    /\ message' = msg

\* lines 336-342: parse the command line, insist on a subcommand
main_parse ==
    /\ pc = "parse_args"
    /\ LET r == parse_args(argv, cwd)
           c == main_subcommand_check(r.ns)
       IN  IF ~r.ok
           THEN Exit(ArgparseErrorStatus, "usage") /\ UNCHANGED args
           ELSE IF c.exit
           THEN Exit(c.status, c.message) /\ UNCHANGED args
           ELSE /\ pc' = "eval"
                /\ args' = r.ns
                /\ UNCHANGED <<stack, exitStatus, message>>
    /\ UNCHANGED <<argv, cwd, procs>>

\* lines 344-349: eval(f'{args.subcommand}(**all_arguments)')
main_eval ==
    /\ pc = "eval"
    /\ IF args.subcommand \in Defined
       THEN /\ pc' = "call"
            /\ stack' = << [fn |-> args.subcommand,
                            args |-> [o \in Dests |-> args[o]],
                            pc |-> 1, child |-> 0] >>
            /\ UNCHANGED <<exitStatus, message>>
       ELSE LET e == main_except("NameError") IN Exit(e.status, e.message)
    /\ UNCHANGED <<argv, cwd, args, procs>>

\* the called function has returned to main, which ends normally
main_return ==
    /\ pc = "call"
    /\ stack = <<>>
    /\ pc' = "exited"
    /\ exitStatus' = 0
    /\ UNCHANGED <<argv, cwd, args, stack, procs, message>>

\* a function calls another function of the module
call_function ==
    /\ pc = "call"
    /\ stack /= <<>>
    /\ Top.pc <= Len(TopBody)
    /\ TopBody[Top.pc].op = "call"
    /\ stack' = Append(stack, [fn |-> TopBody[Top.pc].fn,
                               args |-> TopBody[Top.pc].args,
                               pc |-> 1, child |-> 0])
    /\ UNCHANGED <<argv, cwd, pc, args, procs, exitStatus, message>>

\* a function reaches its end and returns to its caller
function_return ==
    /\ pc = "call"
    /\ stack /= <<>>
    /\ Top.pc > Len(TopBody)
    /\ LET rest == SubSeq(stack, 1, Len(stack) - 1)
       IN  stack' = IF rest = <<>> THEN rest
                    ELSE [rest EXCEPT ![Len(rest)].pc = @ + 1]
    /\ UNCHANGED <<argv, cwd, pc, args, procs, exitStatus, message>>

\* run(...) spawns the child process in directory workdir (None: inherit)
run_spawn ==
    /\ pc = "call"
    /\ stack /= <<>>
    /\ Top.pc <= Len(TopBody)
    /\ TopBody[Top.pc].op = "run"
    /\ Top.child = 0
    /\ procs' = Append(procs, [cmd |-> TopBody[Top.pc].cmd,
                               cwd |-> TopBody[Top.pc].workdir,
                               alive |-> TRUE, returncode |-> 0])
    /\ stack' = SetTop([Top EXCEPT !.child = Len(procs) + 1])
    /\ UNCHANGED <<argv, cwd, pc, args, exitStatus, message>>

\* an external process terminates with some exit status
proc_exit ==
    \E i \in 1..Len(procs), k \in ExitCodes :
        /\ procs[i].alive
        /\ procs' = [procs EXCEPT ![i].alive = FALSE, ![i].returncode = k]
        /\ UNCHANGED <<argv, cwd, pc, args, stack, exitStatus, message>>

\* run(...) has waited for the child and returns normally
run_return ==
    /\ pc = "call"
    /\ stack /= <<>>
    /\ Top.child /= 0
    /\ run_wait(procs[Top.child])
    /\ ~run_check(procs[Top.child])
    /\ stack' = SetTop([Top EXCEPT !.pc = @ + 1, !.child = 0])
    /\ UNCHANGED <<argv, cwd, pc, args, procs, exitStatus, message>>

\* run(...) raises CalledProcessError, which no frame up to main handles
run_raise ==
    /\ pc = "call"
    /\ stack /= <<>>
    /\ Top.child /= 0
    /\ run_wait(procs[Top.child])
    /\ run_check(procs[Top.child])
    /\ LET e == main_except("CalledProcessError") IN Exit(e.status, e.message)
    /\ UNCHANGED <<argv, cwd, args, procs>>

\* the steps of the program itself
ProgramStep ==
    \/ main_parse
    \/ main_eval
    \/ main_return
    \/ call_function
    \/ function_return
    \/ run_spawn
    \/ run_return
    \/ run_raise

Next ==
    \/ main_parse
    \/ main_eval
    \/ main_return
    \/ call_function
    \/ function_return
    \/ run_spawn
    \/ proc_exit
    \/ run_return
    \/ run_raise

Spec == Init /\ [][Next]_vars

\* the interpreter always takes its next step; a child process may run forever
FairSpec == Spec /\ WF_vars(ProgramStep)

(***************************************************************************)
(* Vocabulary of the properties.                                           *)
(***************************************************************************)
\* the subcommands the parser accepts
Catalog == DOMAIN create_subparsers(cwd)
VaultSubcommands == {"encrypt_vault", "edit_vault", "view_vault", "rekey_vault"}
ChainSubcommands == {"validate", "setup", "reprovision"}

\* the command line has a registered subcommand, only options of that
\* subcommand, and the vault file where it is mandatory
ValidArguments ==
    /\ argv.subcommand \in Catalog
    /\ argv.subcommand \in VaultSubcommands =>
          Given(argv) = {"vault_file_path"}
    /\ argv.subcommand \in {"setup", "reprovision", "validate"} =>
          Given(argv) \subseteq {"vagrantfile_path", "playbook_path"}
    /\ argv.subcommand \in {"status", "enter", "destroy", "validate_vagrant"} =>
          Given(argv) \subseteq {"vagrantfile_path"}
    /\ argv.subcommand = "validate_playbook" =>
          Given(argv) \subseteq {"playbook_path"}

\* the paths of the run: given on the command line, or the documented defaults
ResolvedVagrantfile ==
    IF argv.vagrantfile_path /= Absent THEN argv.vagrantfile_path ELSE cwd
ResolvedPlaybook ==
    IF argv.playbook_path /= Absent THEN argv.playbook_path
    ELSE IF cwd = "/" THEN "/provisioning/playbook.yml"
    ELSE cwd \o "/provisioning/playbook.yml"

LintCmd == <<"ansible-lint", ResolvedPlaybook>>
PrimaryCmd(sub) == IF sub = "setup" THEN VAGRANT_UP_CMD ELSE VAGRANT_REPROVISION_CMD

Succeeded(i) == ~procs[i].alive /\ procs[i].returncode = 0
Failed(i) == ~procs[i].alive /\ procs[i].returncode /= 0
SomeFailed == \E i \in 1..Len(procs) : Failed(i)
AllSucceeded == \A i \in 1..Len(procs) : Succeeded(i)
Cmds == [i \in 1..Len(procs) |-> procs[i].cmd]

(***************************************************************************)
(* Properties.                                                             *)
(***************************************************************************)

\* C1: for setup and reprovision the primary vagrant command (up / provision)
\* is spawned only as the third process, after vagrant validate in the
\* resolved vagrantfile path and ansible-lint of the resolved playbook have
\* both exited zero; so a failing validation means no primary action.
C1_ValidateBeforePrimary ==
    argv.subcommand \in {"setup", "reprovision"} =>
        /\ \A j \in 1..Len(procs) :
              procs[j].cmd \in {VAGRANT_UP_CMD, VAGRANT_REPROVISION_CMD} =>
                 /\ j = 3
                 /\ procs[j].cmd = PrimaryCmd(argv.subcommand)
                 /\ procs[1].cmd = VAGRANT_VALIDATE_CMD
                 /\ procs[1].cwd = ResolvedVagrantfile
                 /\ Succeeded(1)
                 /\ procs[2].cmd = LintCmd
                 /\ Succeeded(2)
        /\ (\E i \in 1..Len(procs) : i <= 2 /\ Failed(i)) => Len(procs) <= 2

\* reprovision ended after the playbook lint failed; vagrant provision never ran
C1_Witness ==
    /\ pc = "exited"
    /\ argv.subcommand = "reprovision"
    /\ Len(procs) = 2
    /\ Succeeded(1)
    /\ Failed(2)
    /\ exitStatus /= 0

\* C2 as stated: a successful run of a registered subcommand spawns exactly
\* one process, and exactly two for validate, setup and reprovision.
C2_OneOrTwoProcesses ==
    (pc = "exited" /\ ValidArguments /\ AllSucceeded) =>
        Len(procs) = IF argv.subcommand \in ChainSubcommands THEN 2 ELSE 1

\* the processes a successful run of subcommand sub spawns, in order
ExpectedCmds(sub) ==
    CASE sub = "setup"            -> <<VAGRANT_VALIDATE_CMD, LintCmd, VAGRANT_UP_CMD>>
      [] sub = "reprovision"      -> <<VAGRANT_VALIDATE_CMD, LintCmd, VAGRANT_REPROVISION_CMD>>
      [] sub = "validate"         -> <<VAGRANT_VALIDATE_CMD, LintCmd>>
      [] sub = "validate_vagrant" -> <<VAGRANT_VALIDATE_CMD>>
      [] sub = "status"           -> <<VAGRANT_STATUS_CMD>>
      [] sub = "enter"            -> <<VAGRANT_SSH_CMD>>
      [] sub = "destroy"          -> <<VAGRANT_DESTROY_CMD>>
      [] sub = "validate_playbook" -> <<>>
      [] sub = "encrypt_vault"    -> << <<"ansible-vault", "encrypt", argv.vault_file_path>> >>
      [] sub = "edit_vault"       -> << <<"ansible-vault", "edit", argv.vault_file_path>> >>
      [] sub = "view_vault"       -> << <<"ansible-vault", "view", argv.vault_file_path>> >>
      [] sub = "rekey_vault"      -> << <<"ansible-vault", "rekey", argv.vault_file_path>> >>

\* C2 amended: a successful run of a registered subcommand spawns exactly one
\* process, except validate, which spawns two (vagrant validate, ansible-lint),
\* setup and reprovision, which spawn three (vagrant validate, ansible-lint,
\* then vagrant up / vagrant provision), and validate_playbook, which spawns
\* none; the run of every subcommand but validate_playbook exits 0.
C2_ProcessesPerSubcommand ==
    (pc = "exited" /\ ValidArguments /\ AllSucceeded) =>
        /\ Cmds = ExpectedCmds(argv.subcommand)
        /\ argv.subcommand /= "validate_playbook" => exitStatus = 0

\* setup ran its three processes to success
C2_Witness ==
    /\ pc = "exited"
    /\ argv.subcommand = "setup"
    /\ ValidArguments
    /\ Len(procs) = 3
    /\ AllSucceeded
    /\ exitStatus = 0

\* C3: validate_playbook with valid arguments spawns ansible-lint on the
\* resolved playbook path, exits 0 when the linter exits zero, and is never
\* reported as not implemented.
C3_ValidatePlaybookLints ==
    (argv.subcommand = "validate_playbook" /\ ValidArguments /\ pc = "exited") =>
        /\ Len(procs) = 1
        /\ procs[1].cmd = LintCmd
        /\ Succeeded(1) => exitStatus = 0
        /\ message /= "not implemented"

\* C4, in states: every process but the last one spawned has exited zero (no
\* process is spawned after a failure), and a run that ended after a failure
\* ended with a non-zero status.
C4_NothingAfterFailure ==
    /\ \A i \in 1..Len(procs) : i < Len(procs) => Succeeded(i)
    /\ (pc = "exited" /\ SomeFailed) => exitStatus /= 0

\* C4: once a process has exited non-zero nothing more is spawned and the
\* program terminates with a non-zero exit status.
C4_FailureIsFatal ==
    /\ []C4_NothingAfterFailure
    /\ [][SomeFailed => procs' = procs]_vars
    /\ SomeFailed ~> (pc = "exited" /\ exitStatus /= 0)

\* setup ended after its first process, vagrant validate, failed
C4_Witness ==
    /\ pc = "exited"
    /\ argv.subcommand = "setup"
    /\ Len(procs) = 1
    /\ Failed(1)
    /\ exitStatus /= 0

\* C5: a run that ended after a process exited with non-zero status k has
\* exit status k.
C5_ExitStatusIsProcessStatus ==
    pc = "exited" =>
        \A i \in 1..Len(procs) : Failed(i) => exitStatus = procs[i].returncode

\* C6: with a subcommand word that is not registered, or with no subcommand,
\* the program never gets past parsing, spawns nothing and exits non-zero.
C6_UnknownSubcommand ==
    argv.subcommand \notin Catalog =>
        /\ procs = <<>>
        /\ stack = <<>>
        /\ pc \in {"parse_args", "exited"}
        /\ pc = "exited" => exitStatus /= 0

\* the program was run with no argument at all and has exited
C6_Witness ==
    /\ argv.subcommand = None
    /\ Given(argv) = {}
    /\ pc = "exited"
    /\ exitStatus /= 0
    /\ procs = <<>>

\* C7: a vault subcommand without --vault-file-path never gets past parsing,
\* spawns nothing and exits non-zero; the file a vault process is given is
\* always the one named on the command line.
C7_VaultFileMandatory ==
    /\ (argv.subcommand \in VaultSubcommands /\ argv.vault_file_path = Absent) =>
          /\ procs = <<>>
          /\ pc \in {"parse_args", "exited"}
          /\ pc = "exited" => exitStatus /= 0
    /\ \A i \in 1..Len(procs) :
          procs[i].cmd[1] = "ansible-vault" =>
             /\ argv.vault_file_path /= Absent
             /\ procs[i].cmd[3] = argv.vault_file_path

\* edit_vault was run with no option and has exited
C7_Witness ==
    /\ argv.subcommand = "edit_vault"
    /\ Given(argv) = {}
    /\ pc = "exited"
    /\ exitStatus /= 0
    /\ procs = <<>>

\* C8: every vagrant process runs in the resolved vagrantfile path, every
\* ansible-lint and ansible-vault process in the program's own directory.
C8_WorkingDirectory ==
    \A i \in 1..Len(procs) :
        IF procs[i].cmd[1] = "vagrant"
        THEN procs[i].cwd = ResolvedVagrantfile
        ELSE procs[i].cwd = None

\* setup with a given vagrantfile path has spawned its whole chain
C8_Witness ==
    /\ argv.subcommand = "setup"
    /\ argv.vagrantfile_path = "vm"
    /\ Len(procs) = 3
    /\ procs[1].cwd = "vm"
    /\ procs[2].cwd = None
    /\ procs[3].cwd = "vm"

\* C9: at most one external process is alive, and a process is spawned only
\* when all the earlier ones have terminated.
C9_OneProcessAtATime ==
    /\ Cardinality({i \in 1..Len(procs) : procs[i].alive}) <= 1
    /\ \A i \in 1..Len(procs) : i < Len(procs) => ~procs[i].alive

\* the third process of a chain is running
C9_Witness ==
    /\ Len(procs) = 3
    /\ procs[3].alive
    /\ ~procs[1].alive
    /\ ~procs[2].alive

\* C10: in validate, setup and reprovision ansible-lint is spawned only as
\* the second process, after vagrant validate has exited zero.
C10_VagrantBeforeLint ==
    argv.subcommand \in ChainSubcommands =>
        /\ \A j \in 1..Len(procs) :
              procs[j].cmd[1] = "ansible-lint" =>
                 /\ j = 2
                 /\ procs[1].cmd = VAGRANT_VALIDATE_CMD
                 /\ Succeeded(1)
        /\ (Len(procs) >= 1 /\ Failed(1)) => Len(procs) = 1

\* validate ended after vagrant validate failed; the playbook was not linted
C10_Witness ==
    /\ pc = "exited"
    /\ argv.subcommand = "validate"
    /\ Len(procs) = 1
    /\ procs[1].cmd = VAGRANT_VALIDATE_CMD
    /\ Failed(1)

====
